---- MODULE Spec2Model ----
(***************************************************************************)
(* The `apply` command of colmena (src/command/apply.rs): node selection,  *)
(* the empty-selection exit, the build of the selected nodes, the assembly *)
(* of the task list and the skip list, the parallelism limit, and the      *)
(* deployment executor `deploy` the command hands its task list to.        *)
(*                                                                         *)
(* apply.rs is the only file of the crate at hand.  Its collaborators      *)
(* (util::filter_nodes, Hive::build_selected, DeploymentGoal::from_str,    *)
(* deployment::deploy) are modelled from the written specification and     *)
(* are marked so in MODEL_MAP.json.                                        *)
(***************************************************************************)
EXTENDS Naturals, Sequences, FiniteSets, Bags, TLC

\* ------------------------------------------------------------------ bounds

\* Size of the largest inventory explored; node names are 1..MaxNodes.
MaxNodes == 3

\* ------------------------------------------------------- program constants

\* quit::with_code(2) of the empty-selection branch.
ExitNoHosts == 2

\* ------------------------------------------------------------- Option<T>

None == <<>>
Some(x) == <<x>>
IsSome(o) == o # <<>>
Unwrap(o) == o[1]

\* ------------------------------------------------------------------ clap

Names == 1 .. MaxNodes

\* .possible_values(&["push", "switch", "boot", "test", "dry-activate"])
GoalTokens == {"push", "switch", "boot", "test", "dry-activate"}

\* .default_value("switch") of the positional goal
DefaultGoal == "switch"

\* .default_value("10") of --parallel, as the decimal digits clap hands out
DefaultParallel == <<1, 0>>

\* The --parallel values explored: decimal digit strings the validator
\* accepts ("0", "00", "1", "2"), or no value given at all.
ParallelTokens == {<<0>>, <<0, 0>>, <<1>>, <<2>>}

\* The command lines explored: each argument is given (Some) or left out.
ArgSets ==
    [goal : {None} \cup {Some(g) : g \in GoalTokens},
     parallel : {None} \cup {Some(p) : p \in ParallelTokens}]

\* local_args.value_of("goal"): the value given, else clap's default.
ValueOfGoal(local_args) ==
    IF IsSome(local_args.goal) THEN Unwrap(local_args.goal) ELSE DefaultGoal

\* local_args.value_of("parallel"): the value given, else clap's default.
ValueOfParallel(local_args) ==
    IF IsSome(local_args.parallel) THEN Unwrap(local_args.parallel)
    ELSE DefaultParallel

\* str::parse::<usize>() on a string of decimal digits.
RECURSIVE ParseUsize(_)
ParseUsize(digits) ==
    IF Len(digits) = 0 THEN 0
    ELSE 10 * ParseUsize(SubSeq(digits, 1, Len(digits) - 1))
         + digits[Len(digits)]

\* DeploymentGoal::from_str: the closed enumeration behind the tokens.
DeploymentGoal_from_str(token) ==
    CASE token = "push" -> Some("Push")
      [] token = "switch" -> Some("Switch")
      [] token = "boot" -> Some("Boot")
      [] token = "test" -> Some("Test")
      [] token = "dry-activate" -> Some("DryActivate")
      [] OTHER -> None

\* ----------------------------------------------------------------- state

VARIABLES
    pc,               \* where `run` stands (see the actions below)
    local_args,       \* the parsed command line
    all_nodes,        \* hive.deployment_info(): name -> node configuration
    selected_nodes,   \* the names selected by --on, or every name
    profiles,         \* hive.build_selected(): name -> built profile
    goal,             \* the DeploymentGoal of the run
    max_parallelism,  \* Option<usize> handed to deploy
    task_list,        \* Vec<DeploymentTask>, up to order (a bag)
    skip_list,        \* Vec<String>, up to order (a bag)
    invoked,          \* the collaborators called so far
    state,            \* executor: task name -> pipeline state
    calls,            \* executor: task name -> remote calls made, in order
    cancelled,        \* executor: the run was interrupted from outside
    exitCode          \* the status the process ended with, if it has ended

vars == <<pc, local_args, all_nodes, selected_nodes, profiles, goal,
          max_parallelism, task_list, skip_list, invoked, state, calls,
          cancelled, exitCode>>

runVars == <<local_args, all_nodes, selected_nodes, profiles, goal,
             max_parallelism, task_list, skip_list>>

execVars == <<state, calls, cancelled>>

\* ------------------------------------------------------------- inventory

\* The inventories explored: nodes 1..n, each with or without an SSH
\* target (NodeConfig::to_ssh_host() is Some or None).
Inventories ==
    UNION {{[i \in 1 .. n |->
                [host |-> IF i \in R THEN Some(<<"ssh", i>>) ELSE None]]
            : R \in SUBSET (1 .. n)}
           : n \in 0 .. MaxNodes}

\* node.to_ssh_host()
to_ssh_host(node) == node.host

\* util::filter_nodes(&all_nodes, filter): the names of all_nodes that the
\* filter matches; which ones is the filter's business, so any subset.
filter_nodes(nodes) == SUBSET (DOMAIN nodes)

\* all_nodes.keys().cloned().collect()
AllKeys(nodes) == DOMAIN nodes

\* hive.build_selected(selected_nodes): one built profile per selected name.
build_selected(selected) == [n \in selected |-> <<"profile", n>>]

\* ---------------------------------------------------------------- run

Init ==
    /\ pc = "start"
    /\ local_args \in ArgSets
    /\ all_nodes = <<>>
    /\ selected_nodes = {}
    /\ profiles = <<>>
    /\ goal = None
    /\ max_parallelism = None
    /\ task_list = EmptyBag
    /\ skip_list = EmptyBag
    /\ invoked = {}
    /\ state = <<>>
    /\ calls = <<>>
    /\ cancelled = FALSE
    /\ exitCode = None

\* hive_from_args(..).unwrap(); hive.deployment_info().await.unwrap()
Enumerate ==
    /\ pc = "start"
    /\ \E nodes \in Inventories : all_nodes' = nodes
    /\ invoked' = invoked \cup {"deployment_info"}
    /\ pc' = "enumerated"
    /\ UNCHANGED <<local_args, selected_nodes, profiles, goal,
                   max_parallelism, task_list, skip_list, execVars, exitCode>>

\* Either unwrap() above on an Err: the process panics.
EnumeratePanic ==
    /\ pc = "start"
    /\ invoked' = invoked \cup {"deployment_info"}
    /\ pc' = "panicked"
    /\ exitCode' = Some(101)
    /\ UNCHANGED <<runVars, execVars>>

\* if selected_nodes.len() == 0 { quit::with_code(2) }
\* (SelectionEmptyIgnored is the faulty variant in which the check is missing;
\* the variants named after a fault below are used the same way, to see
\* that the properties tell the code from its near misses.)
SelectionEmptyIgnored(selected) == FALSE
SelectionEmpty(selected) == Cardinality(selected) = 0

\* The selection and the empty-selection check.
Select ==
    /\ pc = "enumerated"
    /\ \E sel \in {AllKeys(all_nodes)} \cup filter_nodes(all_nodes) :
          /\ selected_nodes' = sel
          /\ IF SelectionEmpty(sel)
             THEN pc' = "exited" /\ exitCode' = Some(ExitNoHosts)
             ELSE pc' = "selected" /\ UNCHANGED exitCode
    /\ UNCHANGED <<local_args, all_nodes, profiles, goal, max_parallelism,
                   task_list, skip_list, invoked, execVars>>

\* hive.build_selected(selected_nodes).await.unwrap(), the build succeeding
Build ==
    /\ pc = "selected"
    /\ profiles' = build_selected(selected_nodes)
    /\ invoked' = invoked \cup {"build_selected"}
    /\ pc' = "built"
    /\ UNCHANGED <<local_args, all_nodes, selected_nodes, goal,
                   max_parallelism, task_list, skip_list, execVars, exitCode>>

\* ... and the build failing: unwrap() panics.
BuildPanic ==
    /\ pc = "selected"
    /\ invoked' = invoked \cup {"build_selected"}
    /\ pc' = "panicked"
    /\ exitCode' = Some(101)
    /\ UNCHANGED <<runVars, execVars>>

\* ------------------------------------------------------------- assembly

\* The goal the tasks are built with:
\* DeploymentGoal::from_str(local_args.value_of("goal").unwrap()).unwrap()
TaskGoalDefault(args) == Unwrap(DeploymentGoal_from_str(DefaultGoal))
TaskGoal(args) == Unwrap(DeploymentGoal_from_str(ValueOfGoal(args)))

\* match max_parallelism { 0 => None, _ => Some(max_parallelism) }
MaxParallelismUnmapped(n) == Some(n)
MaxParallelismDropped(n) == None
MaxParallelismOffByOne(n) == IF n = 0 THEN None ELSE Some(n + 1)
MaxParallelism(n) == IF n = 0 THEN None ELSE Some(n)

\* DeploymentTask::new(name, target, profile, goal)
NewTask(name, target, profile, g) ==
    [name |-> name, target |-> target, profile |-> profile, goal |-> g]

\* One turn of `for (name, profile) in profiles.drain()`: lists is the pair
\* of lists so far, and the name goes to the one its SSH target decides.
AssembleStepBoth(lists, nodes, name, profile, g) ==
    LET target == to_ssh_host(nodes[name])
    IN  IF IsSome(target)
        THEN [lists EXCEPT !.tasks =
                 @ (+) SetToBag({NewTask(name, Unwrap(target), profile, g)})]
        ELSE [tasks |-> lists.tasks
                          (+) SetToBag({NewTask(name, name, profile, g)}),
              skips |-> lists.skips (+) SetToBag({name})]
AssembleStepLost(lists, nodes, name, profile, g) ==
    LET target == to_ssh_host(nodes[name])
    IN  IF IsSome(target)
        THEN [lists EXCEPT !.tasks =
                 @ (+) SetToBag({NewTask(name, Unwrap(target), profile, g)})]
        ELSE lists
AssembleStep(lists, nodes, name, profile, g) ==
    LET target == to_ssh_host(nodes[name])
    IN  IF IsSome(target)
        THEN [lists EXCEPT !.tasks =
                 @ (+) SetToBag({NewTask(name, Unwrap(target), profile, g)})]
        ELSE [lists EXCEPT !.skips = @ (+) SetToBag({name})]

\* The whole loop over the drained map, from two empty lists.
RECURSIVE AssembleLoop(_, _, _, _)
AssembleLoop(lists, nodes, profs, g) ==
    IF DOMAIN profs = {} THEN lists
    ELSE LET name == CHOOSE n \in DOMAIN profs : \A m \in DOMAIN profs : n <= m
             rest == [n \in DOMAIN profs \ {name} |-> profs[n]]
         IN  AssembleLoop(AssembleStep(lists, nodes, name, profs[name], g),
                          nodes, rest, g)

\* From the goal to the end of the loop: goal, parallelism limit, the lists.
Assemble ==
    /\ pc = "built"
    /\ goal' = Some(TaskGoal(local_args))
    /\ max_parallelism' =
           MaxParallelism(ParseUsize(ValueOfParallel(local_args)))
    /\ LET lists == AssembleLoop([tasks |-> EmptyBag, skips |-> EmptyBag],
                                 all_nodes, profiles, TaskGoal(local_args))
       IN  /\ task_list' = lists.tasks
           /\ skip_list' = lists.skips
    /\ profiles' = <<>>
    /\ pc' = "assembled"
    /\ UNCHANGED <<local_args, all_nodes, selected_nodes, invoked, execVars,
                   exitCode>>

\* -------------------------------------------------------------- executor
\* deploy(task_list, max_parallelism, !verbose): each task runs the pipeline
\*   Queued -> Transferring -> (Activating ->) Succeeded | Failed
\* under the parallelism limit.

TaskNames(tasks) == {t.name : t \in BagToSet(tasks)}

TaskOf(tasks, n) == CHOOSE t \in BagToSet(tasks) : t.name = n

InFlight(st) ==
    Cardinality({n \in DOMAIN st : st[n] \in {"Transferring", "Activating"}})

Terminal(s) == s \in {"Succeeded", "Failed"}

\* A worker slot is free: no limit, or fewer tasks in flight than the limit.
SlotFree(limit, st) ==
    IF IsSome(limit) THEN InFlight(st) < Unwrap(limit) ELSE TRUE

\* Where a task goes when its transfer succeeded.
AfterTransfer(g) == IF g = "Push" THEN "Succeeded" ELSE "Activating"

\* What a failed remote call does to the pipeline states: the failed task
\* becomes Failed and every other task is left as it is.
FailTaskAbortAll(st, n) ==
    [m \in DOMAIN st |-> IF m = n \/ ~Terminal(st[m]) THEN "Failed" ELSE st[m]]
FailTask(st, n) == [st EXCEPT ![n] = "Failed"]

\* Admission is open: the run has not been cancelled.
AdmissionOpenAlways(c) == TRUE
AdmissionOpen(c) == ~c

\* The executor may return: nothing is in flight and nothing is waiting that
\* could still be admitted.
MayReturn(st, c) ==
    \A n \in DOMAIN st : Terminal(st[n]) \/ (c /\ st[n] = "Queued")

\* The call of deploy: every task of the list starts Queued.
StartDeploy ==
    /\ pc = "assembled"
    /\ invoked' = invoked \cup {"deploy"}
    /\ state' = [n \in TaskNames(task_list) |-> "Queued"]
    /\ calls' = [n \in TaskNames(task_list) |-> <<>>]
    /\ pc' = "deploying"
    /\ UNCHANGED <<runVars, cancelled, exitCode>>

\* Queued --acquire slot--> Transferring: copyClosure is called.
Admit(n) ==
    /\ pc = "deploying"
    /\ n \in DOMAIN state
    /\ state[n] = "Queued"
    /\ AdmissionOpen(cancelled)
    /\ SlotFree(max_parallelism, state)
    /\ state' = [state EXCEPT ![n] = "Transferring"]
    /\ calls' = [calls EXCEPT ![n] =
                    Append(@, [op |-> "copyClosure", res |-> "pending"])]
    /\ UNCHANGED <<pc, runVars, invoked, cancelled, exitCode>>

\* copyClosure returns Ok: Push tasks are done, the others call activate.
TransferOk(n) ==
    /\ pc = "deploying"
    /\ n \in DOMAIN state
    /\ state[n] = "Transferring"
    /\ LET g == TaskOf(task_list, n).goal
           done == [calls[n] EXCEPT ![Len(calls[n])].res = "ok"]
       IN  /\ state' = [state EXCEPT ![n] = AfterTransfer(g)]
           /\ calls' = [calls EXCEPT ![n] =
                           IF AfterTransfer(g) = "Activating"
                           THEN Append(done, [op |-> "activate", goal |-> g,
                                              res |-> "pending"])
                           ELSE done]
    /\ UNCHANGED <<pc, runVars, invoked, cancelled, exitCode>>

\* copyClosure returns Err(TransferError).
TransferFail(n) ==
    /\ pc = "deploying"
    /\ n \in DOMAIN state
    /\ state[n] = "Transferring"
    /\ state' = FailTask(state, n)
    /\ calls' = [calls EXCEPT ![n][Len(calls[n])].res = "err"]
    /\ UNCHANGED <<pc, runVars, invoked, cancelled, exitCode>>

\* activate returns Ok.
ActivateOk(n) ==
    /\ pc = "deploying"
    /\ n \in DOMAIN state
    /\ state[n] = "Activating"
    /\ state' = [state EXCEPT ![n] = "Succeeded"]
    /\ calls' = [calls EXCEPT ![n][Len(calls[n])].res = "ok"]
    /\ UNCHANGED <<pc, runVars, invoked, cancelled, exitCode>>

\* activate returns Err(ActivationError).
ActivateFail(n) ==
    /\ pc = "deploying"
    /\ n \in DOMAIN state
    /\ state[n] = "Activating"
    /\ state' = FailTask(state, n)
    /\ calls' = [calls EXCEPT ![n][Len(calls[n])].res = "err"]
    /\ UNCHANGED <<pc, runVars, invoked, cancelled, exitCode>>

\* The run is interrupted from outside while the executor is running.
Cancel ==
    /\ pc = "deploying"
    /\ ~cancelled
    /\ cancelled' = TRUE
    /\ UNCHANGED <<pc, runVars, invoked, state, calls, exitCode>>

\* deploy(..).await completes, its value is dropped, and `run` returns (): the
\* process ends with the status of a normal return.
Return ==
    /\ pc = "deploying"
    /\ MayReturn(state, cancelled)
    /\ pc' = "returned"
    /\ exitCode' = Some(0)
    /\ UNCHANGED <<runVars, invoked, execVars>>

Next ==
    \/ Enumerate
    \/ EnumeratePanic
    \/ Select
    \/ Build
    \/ BuildPanic
    \/ Assemble
    \/ StartDeploy
    \/ \E n \in Names : Admit(n)
    \/ \E n \in Names : TransferOk(n)
    \/ \E n \in Names : TransferFail(n)
    \/ \E n \in Names : ActivateOk(n)
    \/ \E n \in Names : ActivateFail(n)
    \/ Cancel
    \/ Return

Spec == Init /\ [][Next]_vars

\* The executor's own steps: each is taken if it stays possible.  The remote
\* calls are assumed to return (one way or the other), the interrupt is not
\* assumed to come.
RemoteReturns(n) ==
    TransferOk(n) \/ TransferFail(n) \/ ActivateOk(n) \/ ActivateFail(n)

FairSpec ==
    /\ Spec
    /\ WF_vars(StartDeploy)
    /\ \A n \in Names : WF_vars(Admit(n))
    /\ \A n \in Names : WF_vars(RemoteReturns(n))
    /\ WF_vars(Return)

\* ---------------------------------------------------------------- claims

Assembled == pc \in {"assembled", "deploying", "returned"}

Deployed == pc \in {"deploying", "returned"}

\* The --parallel value as a number, the default when none is given.
LimitArg == ParseUsize(ValueOfParallel(local_args))

\* The run was asked to push only.
PushRequested == ValueOfGoal(local_args) = "push"

SkipNames == BagToSet(skip_list)

Resolves(n) == IsSome(all_nodes[n].host)

InFlightTask(st, n) == st[n] \in {"Transferring", "Activating"}

CallsOf(n, op) == {i \in 1 .. Len(calls[n]) : calls[n][i].op = op}

AllCallsOk(n) == \A i \in 1 .. Len(calls[n]) : calls[n][i].res = "ok"

OwnCallFailed(n) ==
    /\ Len(calls[n]) > 0
    /\ calls[n][Len(calls[n])].res = "err"

\* C1: once the lists are assembled, the number of tasks plus the number of
\* skipped names is the number of selected names, no name is in both lists,
\* and every selected name is in one of them.
C1_Partition ==
    Assembled =>
        /\ BagCardinality(task_list) + BagCardinality(skip_list)
               = Cardinality(selected_nodes)
        /\ TaskNames(task_list) \cap SkipNames = {}
        /\ TaskNames(task_list) \cup SkipNames = selected_nodes

C1_Witness ==
    /\ pc = "assembled"
    /\ BagCardinality(task_list) >= 2
    /\ BagCardinality(skip_list) >= 1

\* C2: a selection that came out empty ends the run with status 2, with
\* nothing built, no task made and the executor never called; and status 2
\* is given for no other reason.
C2_EmptySelectionExits ==
    /\ (selected_nodes = {} /\ pc \notin {"start", "enumerated", "panicked"})
           => /\ pc = "exited"
              /\ exitCode = Some(2)
              /\ invoked \cap {"build_selected", "deploy"} = {}
              /\ task_list = EmptyBag
              /\ skip_list = EmptyBag
              /\ DOMAIN state = {}
              /\ DOMAIN calls = {}
    /\ (pc = "exited" \/ exitCode = Some(2))
           => selected_nodes = {} /\ pc = "exited" /\ exitCode = Some(2)
    /\ "build_selected" \in invoked => selected_nodes # {}

C2_Witness ==
    /\ pc = "exited"
    /\ DOMAIN all_nodes # {}
    /\ exitCode = Some(2)

\* C3: with a positive --parallel value k, never more than k tasks are
\* Transferring or Activating; a task leaves Queued only in a state with
\* fewer than k in flight, and a task leaves the in-flight states only for
\* a terminal state.
C3_Ceiling ==
    /\ [](LimitArg > 0 /\ Deployed => InFlight(state) <= LimitArg)
    /\ [][\A n \in DOMAIN state \cap DOMAIN state' :
            /\ (LimitArg > 0 /\ state[n] = "Queued" /\ state'[n] # "Queued")
                   => InFlight(state) < LimitArg
            /\ (InFlightTask(state, n) /\ ~InFlightTask(state', n))
                   => Terminal(state'[n])]_vars

C3_Witness ==
    /\ pc = "deploying"
    /\ LimitArg = 2
    /\ InFlight(state) = 2
    /\ \E n \in DOMAIN state : state[n] = "Queued"

\* C4: activate is called for a task exactly when the run's goal is not
\* push and the task's copy succeeded, as the call right after the copy and
\* with the run's goal; a pushed task is Succeeded on its copy alone and a
\* task whose copy failed is never Activating.
C4_ActivationIff ==
    Deployed =>
        \A n \in DOMAIN state :
            LET copied == Len(calls[n]) >= 1 /\ calls[n][1].res = "ok"
            IN  /\ CallsOf(n, "activate") # {}
                    <=> (~PushRequested /\ copied)
                /\ CallsOf(n, "activate") \subseteq {2}
                /\ CallsOf(n, "copyClosure") \subseteq {1}
                /\ \A i \in CallsOf(n, "activate") :
                       calls[n][i].goal
                           = Unwrap(DeploymentGoal_from_str(ValueOfGoal(local_args)))
                /\ state[n] = "Activating" => copied
                /\ (PushRequested /\ copied)
                       => state[n] = "Succeeded" /\ Len(calls[n]) = 1
                /\ (Len(calls[n]) >= 1 /\ calls[n][1].res = "err")
                       => state[n] = "Failed" /\ Len(calls[n]) = 1

C4_Witness ==
    /\ pc = "returned"
    /\ ~PushRequested
    /\ \E n \in DOMAIN state :
          state[n] = "Succeeded" /\ CallsOf(n, "activate") = {2}
    /\ \E n \in DOMAIN state :
          state[n] = "Failed" /\ CallsOf(n, "activate") = {}

\* C5: if the run is not interrupted, every task handed to the executor
\* ends Succeeded or Failed: the executor does return, and when it does every
\* task of the list is in a terminal state.  A task that has ended never
\* changes again, and no task goes back to Queued.
C5_AllTerminate ==
    /\ (pc = "deploying") ~> (pc = "returned")
    /\ [](pc = "returned" /\ ~cancelled
              => \A n \in TaskNames(task_list) :
                     n \in DOMAIN state /\ Terminal(state[n]))
    /\ [][\A n \in DOMAIN state :
            /\ n \in DOMAIN state'
            /\ Terminal(state[n])
                   => state'[n] = state[n] /\ calls'[n] = calls[n]
            /\ state[n] # "Queued" => state'[n] # "Queued"]_vars
    /\ [][pc = "returned" => pc' = "returned"]_vars

C5_Witness ==
    /\ pc = "returned"
    /\ ~cancelled
    /\ LimitArg = 1
    /\ Cardinality(DOMAIN state) >= 3
    /\ \A n \in DOMAIN state : Terminal(state[n])

\* C6: a task all of whose remote calls succeeded ends Succeeded whatever
\* the others did; a task is Failed only by its own failed call; the step in
\* which one task fails changes no other task and does not end the run; and
\* after a failure every task still Queued is admitted (unless the run is
\* interrupted, eventually none is left in Queued).
C6_Isolation ==
    /\ [](Deployed =>
            \A b \in DOMAIN state :
                /\ (Terminal(state[b]) /\ AllCallsOk(b))
                       => state[b] = "Succeeded"
                /\ state[b] = "Failed" => OwnCallFailed(b))
    /\ [][\A a \in DOMAIN state :
            (state[a] # "Failed" /\ a \in DOMAIN state' /\ state'[a] = "Failed")
                => /\ pc' = pc
                   /\ \A b \in DOMAIN state \ {a} :
                         state'[b] = state[b] /\ calls'[b] = calls[b]]_vars
    /\ (pc = "deploying" /\ \E a \in DOMAIN state : state[a] = "Failed")
           ~> (cancelled \/ \A b \in DOMAIN state : state[b] # "Queued")

C6_Witness ==
    /\ pc = "returned"
    /\ \E a, b \in DOMAIN state :
          /\ state[a] = "Failed"
          /\ Len(calls[a]) = 1
          /\ state[b] = "Succeeded"
          /\ Len(calls[b]) = 2

\* C7: the process ends with status zero only if the task list handed to
\* the executor was not empty and every task of it succeeded.
C7_ZeroOnlyIfAllSucceeded ==
    exitCode = Some(0) =>
        /\ BagCardinality(task_list) > 0
        /\ \A n \in DOMAIN state : state[n] = "Succeeded"

\* C8: once the run is cancelled no task leaves Queued; the interrupt
\* itself changes no task; a task in flight moves only by the result of its
\* own pending remote call; and the executor does return, and only with
\* nothing in flight, so every task in flight at the interrupt has ended.
C8_Cancellation ==
    /\ [][cancelled =>
            \A n \in DOMAIN state :
                state[n] = "Queued" => state'[n] = "Queued"]_vars
    /\ [][(~cancelled /\ cancelled') => state' = state /\ calls' = calls]_vars
    /\ [][cancelled => cancelled']_vars
    /\ [](cancelled =>
            \A n \in DOMAIN state :
                /\ state[n] = "Failed" => OwnCallFailed(n)
                /\ state[n] = "Succeeded" => AllCallsOk(n) /\ Len(calls[n]) >= 1)
    /\ [][\A n \in DOMAIN state :
            (InFlightTask(state, n) /\ state'[n] # state[n])
                => /\ state'[n] \in {"Activating", "Succeeded", "Failed"}
                   /\ Len(calls[n]) >= 1
                   /\ calls[n][Len(calls[n])].res = "pending"
                   /\ calls'[n][Len(calls[n])].res
                          = IF state'[n] = "Failed" THEN "err" ELSE "ok"]_vars
    /\ [](pc = "returned" => InFlight(state) = 0)
    /\ (cancelled /\ pc = "deploying") ~> (pc = "returned")

C8_Witness ==
    /\ pc = "returned"
    /\ cancelled
    /\ \E n \in DOMAIN state : state[n] = "Queued"
    /\ \E n \in DOMAIN state : state[n] = "Succeeded"
    /\ \E n \in DOMAIN state : state[n] = "Failed"

\* C9: --parallel 0 reaches the executor as no limit and a positive value
\* as that limit, 10 when the option is left out; and with no limit every
\* Queued task can be admitted at once, however many are already in flight.
C9_ParallelLimit ==
    Assembled =>
        /\ LimitArg = 0 <=> max_parallelism = None
        /\ LimitArg > 0 => max_parallelism = Some(LimitArg)
        /\ local_args.parallel = None => max_parallelism = Some(10)
        /\ local_args.parallel \in {Some(<<0>>), Some(<<0, 0>>)}
               => max_parallelism = None
        /\ (pc = "deploying" /\ max_parallelism = None /\ ~cancelled)
               => \A n \in DOMAIN state :
                      state[n] = "Queued" => ENABLED Admit(n)

C9_Witness ==
    /\ pc = "deploying"
    /\ local_args.parallel = Some(<<0>>)
    /\ Cardinality(DOMAIN state) >= 3
    /\ InFlight(state) = Cardinality(DOMAIN state)

\* C10: a selected name is a task exactly when its node has an SSH target;
\* a name without one is in the skip list and the executor never sees it;
\* and the names that do resolve are all deployed none the less.
C10_SkipUnresolved ==
    /\ Assembled =>
          \A n \in selected_nodes :
              /\ n \in TaskNames(task_list) <=> Resolves(n)
              /\ ~Resolves(n)
                     => /\ n \in SkipNames
                        /\ n \notin DOMAIN state
                        /\ n \notin DOMAIN calls
              /\ Resolves(n)
                     => /\ n \notin SkipNames
                        /\ TaskOf(task_list, n).target
                               = Unwrap(all_nodes[n].host)
    /\ Deployed => DOMAIN state = {n \in selected_nodes : Resolves(n)}
    /\ pc = "assembled" => ENABLED StartDeploy

C10_Witness ==
    /\ pc = "returned"
    /\ BagCardinality(skip_list) >= 1
    /\ \E n \in DOMAIN state : state[n] = "Succeeded"
    /\ \E n \in selected_nodes : ~Resolves(n)

====
